---- MODULE Spec2Model ----
(***************************************************************************)
(* The encrypted multi-tenant credential store of media-mgmt-agent         *)
(* (src/db_manager.py, class DatabaseManager) as a state machine.          *)
(*                                                                         *)
(* The state is what a data directory holds (the key file and the three    *)
(* tables of the SQLite database) together with the store objects built    *)
(* on it.  Every public method that writes is one action; every public     *)
(* method that only reads is an operator over the state.  For callers      *)
(* whose calls overlap, a method is in addition split into the steps       *)
(* between which another caller can take a step: its transactions on the   *)
(* database and its operations on the key file.  `last' records            *)
(* the most recent call, its arguments and what it returned; of the store  *)
(* object a call was made on it records what the call used: the key, for   *)
(* save_credentials, and nothing for the calls that use only the database. *)
(*                                                                         *)
(* On top of the store, the module models the module-level tools of       *)
(* src/media_tools.py with MediaAgent.__init__ of src/media_agent.py, and  *)
(* the Streamlit sessions of src/media_ui.py.  `tools' holds, per service, *)
(* the two globals and what all tools of the service share: the base of    *)
(* their url_template and their X-Api-Key header.  `session' holds         *)
(* st.session_state of each session; one action is one script run, from    *)
(* main() through the handler of the widget that caused it.  Only the      *)
(* run of login_page is split, between has_any_users() and the handling    *)
(* of the submitted form.                                                  *)
(*                                                                         *)
(* Representation of values                                                *)
(*   - Python strings are TLA+ strings; Python's None is the string None,  *)
(*     which no input domain contains.  Where Python has an int or None    *)
(*     (a user id), None is NoneId, which is no row id.                    *)
(*   - A column value of the credentials table is NULL, a Fernet token or  *)
(*     the empty text; all three are records, so they compare freely.      *)
(*   - A Fernet token is the record of what determines its decryption:     *)
(*     the key that made it, the plaintext, and whether its bytes (and so  *)
(*     its HMAC) are still the ones written.  The random IV and the        *)
(*     timestamp of a token are left out: no method reads them.            *)
(*   - A SHA-256 hex digest is the pair <<"sha256", password>>: distinct   *)
(*     passwords have distinct digests.                                    *)
(*   - Row ids of credentials and settings, created_at and updated_at are  *)
(*     left out: no method of the store returns them.                      *)
(***************************************************************************)
EXTENDS Integers, FiniteSets, Sequences, TLC

VARIABLES
    key_file,       \* contents of <data_dir>/.encryption_key, or NoFile
    stores,         \* StoreIds -> fernet_key of the store object, or NotBuilt
    users,          \* rows of table users: [id, username, password_hash]
    users_seq,      \* AUTOINCREMENT counter of users (sqlite_sequence)
    credentials,    \* rows of table credentials
    settings,       \* rows of table settings
    last,           \* the most recent call: [op, ..arguments.., result]
    pw_set,         \* history: username -> password most recently set, or None
    keyless,        \* history: the stores built without an explicit key
    schema,         \* names of the tables the database file holds
    setting_saved,  \* history: <<user_id, key>> -> value most recently saved
    calls,          \* Callers -> the call a caller is in, or has returned from
    init_pc,        \* StoreIds -> how far a stepwise __init__ has come
    session,        \* Sessions -> st.session_state of a UI session
    tools           \* media_tools: the module globals and the tool objects

vars == <<key_file, stores, users, users_seq, credentials, settings, last,
          pw_set, keyless, schema, setting_saved, calls, init_pc,
          session, tools>>

data_dir_vars == <<key_file, stores, keyless, schema, init_pc>>
auth_vars     == <<users, users_seq, pw_set>>
setting_vars  == <<settings, setting_saved>>
ui_vars       == <<session, tools>>

----------------------------------------------------------------------------
(* Bounds and input domains *)

\* Number of DatabaseManager objects built on the one data directory.
NumStores == 2

StoreIds == 1..NumStores

\* Number of callers (UI sessions, threads or processes) whose calls on the
\* one data directory overlap.
NumCallers == 2

Callers == 1..NumCallers

\* A caller that is in no call.
Idle == [op |-> "idle"]

None     == "None"
NoneId   == -1
NoFile   == "NoFile"
NotBuilt == "NotBuilt"

Usernames == {"alice", "bob"}
Passwords == {"pw1", "pw2"}

\* Keys Fernet.generate_key() may return, and values a caller may pass as
\* encryption_key (None and "" included; "not-a-key" is no Fernet key).
GenKeys      == {"K1", "K2"}
ExplicitKeys == {None, "", "K1", "K2", "not-a-key"}

\* Ids a caller may pass as user_id: the ids the users table can hand out.
UserIds  == 1..Cardinality(Usernames)
Services == {"radarr", "sonarr"}
Urls     == {None, "", "http://a"}
ApiKeys  == {None, "", "k1"}

SettingKeys   == {"llm_provider"}
SettingValues == {"openrouter", "openai"}

\* The setting keys the UI saves together.
AllSettingKeys == SettingKeys \cup {"llm_model"}

TableNames == {"users", "credentials", "settings"}

\* UI sessions: each builds its own DatabaseManager, so session s works on
\* store s.
Sessions == StoreIds

\* st.session_state.agent when it is None.
NoAgent == [kind |-> "None"]

\* st.session_state as initialize_session_state fills it in.  rendered is
\* no key of st.session_state: it is the form the current run of
\* login_page has chosen to render ("none" outside such a run).  attempts
\* and agent_user are history: the attempts of auto_initialize_agent since
\* the login, and the user_id whose credentials the agent was built from.
LoggedOut ==
    [user_id |-> NoneId, username |-> None, agent |-> NoAgent,
     messages |-> <<>>, configured_services |-> <<>>, page |-> "chat",
     auto_init_attempted |-> FALSE,
     rendered |-> "none", attempts |-> 0, agent_user |-> NoneId]

\* The services media_tools has tools for.
MediaServices == {"radarr", "sonarr"}

\* The text that f"{RADARR_URL}" gives while RADARR_URL is None.
TextOfNone == "'None'"

\* media_tools as imported: RADARR_URL and RADARR_API_KEY are None, and
\* every tool was built with url_template f"{RADARR_URL}/api/v3/..." and
\* headers {"X-Api-Key": RADARR_API_KEY} (likewise for Sonarr).  The tools
\* of one service differ only in the path after the base url, so the model
\* keeps the base and the header per service.
Unconfigured ==
    [URL |-> None, API_KEY |-> None, url_base |-> TextOfNone,
     header |-> None]

\* Urls and API keys typed into the UI, and the LLM API key.
ServiceUrls == {"http://a", "http://b"}
ServiceKeys == {"k1", "k2"}
LlmKeys     == {"sk-1"}

----------------------------------------------------------------------------
(* Python truthiness, as used by `if x' / `if not x' *)

\* on Optional[str]
Truthy(x) == x # None /\ x # ""

\* on Optional[int]
TruthyId(x) == x # NoneId /\ x # 0

----------------------------------------------------------------------------
(* Column values and the cipher *)

NULL      == [sql |-> "NULL"]
EmptyText == [sql |-> "TEXT", empty |-> TRUE]

\* cryptography.fernet.Fernet(key).encrypt(data): an authenticated token.
FernetEncrypt(key, data) ==
    [sql |-> "TEXT", key |-> key, pt |-> data, intact |-> TRUE]

InvalidToken == "InvalidToken"

\* Fernet(key).decrypt(token), by the library's contract: the plaintext when
\* the token's HMAC verifies under this key, the exception InvalidToken for
\* a token that is in any way invalid.
FernetDecrypt(key, token) ==
    IF token.key = key /\ token.intact THEN token.pt ELSE InvalidToken

\* Fernet(key) accepts only a well-formed key.
IsFernetKey(k) == k \in GenKeys

\* `if not data' on a str: the empty string.  On a column value: NULL (None)
\* or the empty text.
FalsyColumn(c) == c = NULL \/ c = EmptyText

_hash_password(password) == <<"sha256", password>>

_encrypt_WritesPlaintext(key, data) ==
    IF ~Truthy(data) THEN EmptyText ELSE [sql |-> "TEXT", text |-> data]

_encrypt(key, data) ==
    IF ~Truthy(data) THEN EmptyText ELSE FernetEncrypt(key, data)

\* Returns the value (or InvalidToken, raised) and the inputs handed to the
\* cipher on the way.
_decrypt_SwallowsInvalidToken(key, encrypted_data) ==
    IF FalsyColumn(encrypted_data)
    THEN [value |-> "", cipher |-> <<>>]
    ELSE [value  |-> IF FernetDecrypt(key, encrypted_data) = InvalidToken
                     THEN ""
                     ELSE FernetDecrypt(key, encrypted_data),
          cipher |-> <<encrypted_data>>]

_decrypt(key, encrypted_data) ==
    IF FalsyColumn(encrypted_data)
    THEN [value |-> "", cipher |-> <<>>]
    ELSE [value  |-> FernetDecrypt(key, encrypted_data),
          cipher |-> <<encrypted_data>>]

----------------------------------------------------------------------------
(* Construction *)

Init ==
    /\ key_file = NoFile
    /\ stores = [i \in StoreIds |-> NotBuilt]
    /\ users = {}
    /\ users_seq = 0
    /\ credentials = {}
    /\ settings = {}
    /\ last = [op |-> "none", result |-> None]
    /\ pw_set = [n \in Usernames |-> None]
    /\ keyless = {}
    /\ schema = {}
    /\ setting_saved = [x \in UserIds \X AllSettingKeys |-> None]
    /\ calls = [c \in Callers |-> Idle]
    /\ init_pc = [i \in StoreIds |-> "start"]
    /\ session = [s \in Sessions |-> LoggedOut]
    /\ tools = [svc \in MediaServices |-> Unconfigured]

Built(i) == stores[i] # NotBuilt

\* self.fernet_key as __init__ chooses it: the explicit key, else the
\* contents of the key file, else a newly generated key k.
ObtainKey_IgnoresKeyFile(encryption_key, k) ==
    IF Truthy(encryption_key) THEN encryption_key ELSE k

ObtainKey(encryption_key, k) ==
    IF Truthy(encryption_key) THEN encryption_key
    ELSE IF key_file # NoFile THEN key_file
    ELSE k

\* CREATE TABLE IF NOT EXISTS <table>: the rows of the table afterwards.
CreateTableIfNotExists_DropFirst(table, rows) == {}

CreateTableIfNotExists(table, rows) == IF table \in schema THEN rows ELSE {}

\* _init_database: the three CREATE TABLE IF NOT EXISTS statements and the
\* commit, in one transaction.
_init_database ==
    /\ users' = CreateTableIfNotExists("users", users)
    /\ credentials' = CreateTableIfNotExists("credentials", credentials)
    /\ settings' = CreateTableIfNotExists("settings", settings)
    /\ schema' = schema \cup TableNames
    /\ UNCHANGED <<users_seq, pw_set, setting_saved>>

\* DatabaseManager.__init__ with a given outcome k of Fernet.generate_key().
\* Fernet(self.fernet_key) raises ValueError on a malformed key, before
\* _init_database is reached.
NewStoreWith(i, encryption_key, k) ==
    LET fernet_key == ObtainKey(encryption_key, k)
    IN /\ key_file' = IF ~Truthy(encryption_key) /\ key_file = NoFile
                      THEN k ELSE key_file
       /\ IF IsFernetKey(fernet_key)
          THEN /\ stores' = [stores EXCEPT ![i] = fernet_key]
               /\ keyless' = IF Truthy(encryption_key) THEN keyless
                             ELSE keyless \cup {i}
               /\ last' = [op |-> "__init__", store |-> i,
                           encryption_key |-> encryption_key,
                           result |-> fernet_key]
               /\ _init_database
          ELSE /\ UNCHANGED <<stores, keyless>>
               /\ last' = [op |-> "__init__", store |-> i,
                           encryption_key |-> encryption_key,
                           result |-> "ValueError"]
               /\ UNCHANGED <<auth_vars, credentials, setting_vars, schema>>
       /\ UNCHANGED <<calls, init_pc, ui_vars>>

NewStore(i, encryption_key) ==
    /\ ~Built(i)
    /\ \E k \in GenKeys : NewStoreWith(i, encryption_key, k)

\* DatabaseManager.__init__ without an explicit key, file operation by file
\* operation, as it runs while other constructions are in progress on the
\* same data directory.  First key_file.exists().
init_exists(i) ==
    /\ ~Built(i)
    /\ init_pc[i] = "start"
    /\ init_pc' = [init_pc EXCEPT ![i] =
                     IF key_file # NoFile THEN "read" ELSE "generate"]
    /\ UNCHANGED <<key_file, stores, keyless, schema, auth_vars, credentials,
                   setting_vars, calls, last, ui_vars>>

\* The file existed: open(key_file, 'rb') and f.read(), then Fernet(...),
\* which raises ValueError on what is no key (an empty file), then
\* _init_database.
init_read(i) ==
    /\ init_pc[i] = "read"
    /\ IF IsFernetKey(key_file)
       THEN /\ stores' = [stores EXCEPT ![i] = key_file]
            /\ keyless' = keyless \cup {i}
            /\ init_pc' = [init_pc EXCEPT ![i] = "loaded"]
            /\ last' = [op |-> "__init__", store |-> i,
                        encryption_key |-> None, result |-> key_file]
            /\ _init_database
       ELSE /\ init_pc' = [init_pc EXCEPT ![i] = "failed"]
            /\ last' = [op |-> "__init__", store |-> i,
                        encryption_key |-> None, result |-> "ValueError"]
            /\ UNCHANGED <<stores, keyless, schema, auth_vars, credentials,
                           setting_vars>>
    /\ UNCHANGED <<key_file, calls, ui_vars>>

\* The file did not exist: Fernet.generate_key(), then open(key_file, 'wb'),
\* which creates the file or empties the one that has appeared meanwhile.
init_open(i) ==
    /\ init_pc[i] = "generate"
    /\ key_file' = ""
    /\ init_pc' = [init_pc EXCEPT ![i] = "opened"]
    /\ UNCHANGED <<stores, keyless, schema, auth_vars, credentials,
                   setting_vars, calls, last, ui_vars>>

\* f.write(self.fernet_key) of the generated key k and the close of the
\* file, then Fernet(...) and _init_database.
init_write(i, k) ==
    /\ init_pc[i] = "opened"
    /\ key_file' = k
    /\ stores' = [stores EXCEPT ![i] = k]
    /\ keyless' = keyless \cup {i}
    /\ init_pc' = [init_pc EXCEPT ![i] = "wrote"]
    /\ last' = [op |-> "__init__", store |-> i,
                encryption_key |-> None, result |-> k]
    /\ _init_database
    /\ UNCHANGED <<calls, ui_vars>>

----------------------------------------------------------------------------
(* Auth service *)

UserRows(username) == {r \in users : r.username = username}

\* cursor.fetchone() on a non-empty result set.
FetchOne(rows) == CHOOSE r \in rows : TRUE

\* SELECT id FROM users WHERE username = ? AND password_hash = ?
verify_user_IgnoresPassword(username, password) ==
    IF UserRows(username) # {} THEN FetchOne(UserRows(username)).id ELSE NoneId

verify_user(username, password) ==
    LET result == {r \in users :
                     /\ r.username = username
                     /\ r.password_hash = _hash_password(password)}
    IN IF result # {} THEN FetchOne(result).id ELSE NoneId

user_exists(username) == UserRows(username) # {}

\* SELECT COUNT(*) FROM users; count > 0
has_any_users_MoreThanOne == Cardinality(users) > 1

has_any_users == Cardinality(users) > 0

\* username TEXT UNIQUE NOT NULL: whether an INSERT of this username
\* violates the constraint.
UsernameTaken_Unconstrained(username) == FALSE

UsernameTaken(username) == UserRows(username) # {}

\* INSERT INTO users: a violated UNIQUE constraint raises IntegrityError, the
\* transaction rolls back and the method returns False.  The constraint is
\* checked and the row inserted by the one statement, under the write lock
\* of the database file.
InsertUser(i, username, password) ==
    /\ Built(i)
    /\ IF UsernameTaken(username)
       THEN /\ UNCHANGED auth_vars
            /\ last' = [op |-> "create_user", username |-> username,
                        password |-> password, result |-> FALSE]
       ELSE /\ users' = users \cup
                  {[id |-> users_seq + 1, username |-> username,
                    password_hash |-> _hash_password(password)]}
            /\ users_seq' = users_seq + 1
            /\ pw_set' = [pw_set EXCEPT ![username] = password]
            /\ last' = [op |-> "create_user", username |-> username,
                        password |-> password, result |-> TRUE]
    /\ UNCHANGED <<data_dir_vars, credentials, setting_vars>>

\* create_user called with no other call in progress.
create_user(i, username, password) ==
    /\ InsertUser(i, username, password)
    /\ UNCHANGED <<calls, ui_vars>>

\* create_user as caller c runs it while other calls are in progress: the
\* call is entered, and later its transaction commits or rolls back and the
\* call returns.
create_user_invoke(c, username, password) ==
    /\ calls[c] = Idle
    /\ calls' = [calls EXCEPT ![c] =
                   [op |-> "create_user", stage |-> "invoked",
                    username |-> username, password |-> password]]
    /\ UNCHANGED <<data_dir_vars, auth_vars, credentials, setting_vars, last,
                   ui_vars>>

create_user_return(c, i) ==
    /\ calls[c].op = "create_user"
    /\ calls[c].stage = "invoked"
    /\ InsertUser(i, calls[c].username, calls[c].password)
    /\ calls' = [calls EXCEPT ![c] =
                   [op |-> "create_user", stage |-> "returned",
                    username |-> calls[c].username,
                    password |-> calls[c].password,
                    result |-> last'.result]]
    /\ UNCHANGED ui_vars

\* user_id = self.verify_user(username, old_password)
VerifiedUserId_ByNameOnly(username, old_password) ==
    IF UserRows(username) # {} THEN FetchOne(UserRows(username)).id ELSE NoneId

VerifiedUserId(username, old_password) == verify_user(username, old_password)

\* UPDATE users SET password_hash = ? WHERE id = ?
UpdatePasswordHash_NoRowMatched(user_id, new_hash) == users

UpdatePasswordHash_EveryRow(user_id, new_hash) ==
    {[r EXCEPT !.password_hash = new_hash] : r \in users}

UpdatePasswordHash(user_id, new_hash) ==
    {IF r.id = user_id THEN [r EXCEPT !.password_hash = new_hash] ELSE r :
       r \in users}

change_password(i, username, old_password, new_password) ==
    /\ Built(i)
    /\ LET user_id == VerifiedUserId(username, old_password)
       IN IF ~TruthyId(user_id)
          THEN /\ UNCHANGED auth_vars
               /\ last' = [op |-> "change_password", username |-> username,
                           old_password |-> old_password,
                           new_password |-> new_password, result |-> FALSE]
          ELSE /\ users' = UpdatePasswordHash(user_id,
                                              _hash_password(new_password))
               /\ pw_set' = [pw_set EXCEPT ![username] = new_password]
               /\ UNCHANGED users_seq
               /\ last' = [op |-> "change_password", username |-> username,
                           old_password |-> old_password,
                           new_password |-> new_password, result |-> TRUE]
    /\ UNCHANGED <<data_dir_vars, credentials, setting_vars, calls, ui_vars>>

\* change_password as caller c runs it, transaction by transaction.  First
\* self.verify_user(username, old_password), on a connection of its own that
\* is closed before the method goes on; a falsy user_id returns False.
change_password_verify(c, i, username, old_password, new_password) ==
    /\ Built(i)
    /\ calls[c] = Idle
    /\ LET user_id == VerifiedUserId(username, old_password)
       IN IF ~TruthyId(user_id)
          THEN /\ UNCHANGED calls
               /\ last' = [op |-> "change_password", username |-> username,
                           old_password |-> old_password,
                           new_password |-> new_password, result |-> FALSE]
          ELSE /\ calls' = [calls EXCEPT ![c] =
                              [op |-> "change_password",
                               username |-> username,
                               old_password |-> old_password,
                               new_password |-> new_password,
                               user_id |-> user_id]]
               /\ last' = [op |-> "verify_user", username |-> username,
                           password |-> old_password, result |-> user_id]
    /\ UNCHANGED <<data_dir_vars, auth_vars, credentials, setting_vars,
                   ui_vars>>

\* Then, on a second connection, UPDATE users SET password_hash = ? WHERE
\* id = ? with the user_id found before, commit, and return True.
change_password_update(c) ==
    /\ calls[c].op = "change_password"
    /\ users' = UpdatePasswordHash(calls[c].user_id,
                                   _hash_password(calls[c].new_password))
    /\ pw_set' = [pw_set EXCEPT ![calls[c].username] = calls[c].new_password]
    /\ UNCHANGED users_seq
    /\ last' = [op |-> "change_password", username |-> calls[c].username,
                old_password |-> calls[c].old_password,
                new_password |-> calls[c].new_password, result |-> TRUE]
    /\ calls' = [calls EXCEPT ![c] = Idle]
    /\ UNCHANGED <<data_dir_vars, credentials, setting_vars, ui_vars>>

----------------------------------------------------------------------------
(* Credential service *)

\* WHERE user_id = ? AND service_name = ?, and the conflict target
\* UNIQUE(user_id, service_name).
CredRows_AnyUser(user_id, service_name) ==
    {r \in credentials : r.service_name = service_name}

CredRows(user_id, service_name) ==
    {r \in credentials : r.user_id = user_id /\ r.service_name = service_name}

\* INSERT INTO credentials ... ON CONFLICT(user_id, service_name) DO UPDATE
\* SET encrypted_url = excluded.encrypted_url,
\*     encrypted_api_key = excluded.encrypted_api_key
UpsertCredential_AlwaysInsert(row) == credentials \cup {row}

UpsertCredential(row) ==
    IF CredRows(row.user_id, row.service_name) # {}
    THEN (credentials \ CredRows(row.user_id, row.service_name)) \cup {row}
    ELSE credentials \cup {row}

\* `self._encrypt(x) if x else None' on one argument of save_credentials.
EncryptOptional_Unguarded(key, x) == _encrypt(key, x)

EncryptOptional(key, x) == IF Truthy(x) THEN _encrypt(key, x) ELSE NULL

\* The foreign key on user_id is declared but sqlite3.connect() leaves
\* PRAGMA foreign_keys off: the INSERT does not look at the users table.
save_credentials(i, user_id, service_name, url, api_key) ==
    /\ Built(i)
    /\ LET encrypted_url == EncryptOptional(stores[i], url)
           encrypted_key == EncryptOptional(stores[i], api_key)
       IN credentials' = UpsertCredential(
              [user_id |-> user_id, service_name |-> service_name,
               encrypted_url |-> encrypted_url,
               encrypted_api_key |-> encrypted_key])
    /\ last' = [op |-> "save_credentials", key |-> stores[i],
                user_id |-> user_id,
                service_name |-> service_name, url |-> url,
                api_key |-> api_key, result |-> None]
    /\ UNCHANGED <<data_dir_vars, auth_vars, setting_vars, calls, ui_vars>>

\* `self._decrypt(c) if c else None' on one column of a fetched row.
DecryptColumn(key, c) ==
    IF ~FalsyColumn(c) THEN _decrypt(key, c)
    ELSE [value |-> None, cipher |-> <<>>]

\* The {'url': ..., 'api_key': ...} built from one row: url is decrypted
\* first, and an InvalidToken it raises ends the call.
DecryptRow(key, row) ==
    LET url == DecryptColumn(key, row.encrypted_url)
        api == DecryptColumn(key, row.encrypted_api_key)
    IN IF url.value = InvalidToken
       THEN [outcome |-> InvalidToken, url |-> None, api_key |-> None,
             cipher |-> url.cipher]
       ELSE IF api.value = InvalidToken
       THEN [outcome |-> InvalidToken, url |-> None, api_key |-> None,
             cipher |-> url.cipher \o api.cipher]
       ELSE [outcome |-> "dict", url |-> url.value, api_key |-> api.value,
             cipher |-> url.cipher \o api.cipher]

\* get_credentials on a store whose fernet_key is key.
\* outcome "None": no row; "dict": the decrypted pair; InvalidToken: raised.
\* cipher: the column values handed to Fernet.decrypt, in order.
ReadCredentials(key, user_id, service_name) ==
    LET result == CredRows(user_id, service_name)
    IN IF result = {}
       THEN [outcome |-> "None", url |-> None, api_key |-> None,
             cipher |-> <<>>]
       ELSE DecryptRow(key, FetchOne(result))

get_credentials(i, user_id, service_name) ==
    ReadCredentials(stores[i], user_id, service_name)

\* get_all_credentials on a store whose fernet_key is key.
\* outcome "dict": value maps each service_name of the user's rows to its
\* decrypted pair, and cipher holds, per row, the column values handed to
\* Fernet.decrypt.  InvalidToken: some column failed to decrypt and nothing
\* is returned (value and cipher are then empty: which rows were decrypted
\* before the failing one depends on the order of the rows).
ReadAllCredentials(key, user_id) ==
    LET results == {r \in credentials : r.user_id = user_id}
        dec(r)  == DecryptRow(key, r)
        names   == {r.service_name : r \in results}
        rowOf(s) == FetchOne({r \in results : r.service_name = s})
    IN IF \E r \in results : dec(r).outcome = InvalidToken
       THEN [outcome |-> InvalidToken, value |-> <<>>,
             cipher |-> {}]
       ELSE [outcome |-> "dict",
             value |-> [s \in names |->
                          [url |-> dec(rowOf(s)).url,
                           api_key |-> dec(rowOf(s)).api_key]],
             cipher |-> {dec(r).cipher : r \in results}]

get_all_credentials(i, user_id) == ReadAllCredentials(stores[i], user_id)

\* DELETE FROM credentials WHERE user_id = ? AND service_name = ?
delete_credentials_ByServiceOnly(i, user_id, service_name) ==
    /\ Built(i)
    /\ credentials' = {r \in credentials : r.service_name # service_name}
    /\ last' = [op |-> "delete_credentials", user_id |-> user_id,
                service_name |-> service_name, result |-> None]
    /\ UNCHANGED <<data_dir_vars, auth_vars, setting_vars, calls, ui_vars>>

delete_credentials(i, user_id, service_name) ==
    /\ Built(i)
    /\ credentials' = credentials \ CredRows(user_id, service_name)
    /\ last' = [op |-> "delete_credentials", user_id |-> user_id,
                service_name |-> service_name, result |-> None]
    /\ UNCHANGED <<data_dir_vars, auth_vars, setting_vars, calls, ui_vars>>

\* Outside the store: one byte of a stored ciphertext is flipped in the
\* database file.  column is "encrypted_url" or "encrypted_api_key".
FlipByte(user_id, service_name, column) ==
    /\ \E r \in CredRows(user_id, service_name) :
          /\ ~FalsyColumn(r[column])
          /\ r[column].intact
          /\ credentials' = (credentials \ {r}) \cup
                 {[r EXCEPT ![column] = [r[column] EXCEPT !.intact = FALSE]]}
    /\ last' = [op |-> "flip_byte", user_id |-> user_id,
                service_name |-> service_name, column |-> column,
                result |-> None]
    /\ UNCHANGED <<data_dir_vars, auth_vars, setting_vars, calls, ui_vars>>

----------------------------------------------------------------------------
(* Settings service *)

SettingRows(user_id, key) ==
    {r \in settings : r.user_id = user_id /\ r.setting_key = key}

\* INSERT INTO settings ... ON CONFLICT(user_id, setting_key) DO UPDATE
\* SET setting_value = excluded.setting_value
UpsertSetting_FirstValueWins(row) ==
    IF SettingRows(row.user_id, row.setting_key) # {}
    THEN settings
    ELSE settings \cup {row}

UpsertSetting(row) ==
    IF SettingRows(row.user_id, row.setting_key) # {}
    THEN (settings \ SettingRows(row.user_id, row.setting_key)) \cup {row}
    ELSE settings \cup {row}

save_setting(i, user_id, key, value) ==
    /\ Built(i)
    /\ settings' = UpsertSetting([user_id |-> user_id, setting_key |-> key,
                                  setting_value |-> value])
    /\ setting_saved' = [setting_saved EXCEPT ![<<user_id, key>>] = value]
    /\ last' = [op |-> "save_setting", user_id |-> user_id,
                setting_key |-> key, value |-> value, result |-> None]
    /\ UNCHANGED <<data_dir_vars, auth_vars, credentials, calls, ui_vars>>

get_setting(user_id, key) ==
    LET result == SettingRows(user_id, key)
    IN IF result # {} THEN FetchOne(result).setting_value ELSE None

get_all_settings(user_id) ==
    LET rows == {r \in settings : r.user_id = user_id}
    IN [k \in {r.setting_key : r \in rows} |->
          FetchOne({r \in rows : r.setting_key = k}).setting_value]

----------------------------------------------------------------------------
(* media_tools and MediaAgent *)

\* str.replace(old, new) on the url_template of a tool, as far as the base
\* url goes: old must be a str; a template that does not contain old is
\* returned as it is.  (Urls are taken to be no substrings of one another
\* or of the path.)
StrReplace(url_base, old, new) ==
    IF old = None THEN "TypeError"
    ELSE IF url_base = old THEN new
    ELSE url_base

\* configure_radarr / configure_sonarr on the tools T: the globals are
\* assigned first, then the loop over the tools replaces old_url in each
\* url_template and sets the header; a TypeError of the first replace ends
\* the call before any tool is changed.
SetTools(T, svc, url, api_key, new_base) ==
    IF new_base = "TypeError"
    THEN [raised |-> "TypeError",
          tools |-> [T EXCEPT ![svc].URL = url, ![svc].API_KEY = api_key]]
    ELSE [raised |-> None,
          tools |-> [T EXCEPT ![svc] =
                       [URL |-> url, API_KEY |-> api_key,
                        url_base |-> new_base, header |-> api_key]]]

configure(T, svc, url, api_key) ==
    SetTools(T, svc, url, api_key,
             StrReplace(T[svc].url_base, T[svc].URL, url))

\* os.getenv of the LLM API keys: the process is started without them.
Environ == [OPENAI_API_KEY |-> None, OPENROUTER_API_KEY |-> None]

\* `x or y' on Optional[str].
Or(x, y) == IF Truthy(x) THEN x ELSE y

\* `if radarr_url and radarr_api_key:' -- a service is configured only when
\* both are given.
BothGiven_UrlOnly(url, api_key) == Truthy(url)

BothGiven(url, api_key) == Truthy(url) /\ Truthy(api_key)

\* MediaAgent.__init__ on the tools T.  outcome is "MediaAgent" (agent is
\* then the object) or the exception raised; tools is what the call
\* leaves of the module's tools either way.  The constructor configures
\* Radarr (r is what that did), then Sonarr (s), then checks that a
\* service was configured, then picks the LLM client.
Raised(exception, T) == [outcome |-> exception, agent |-> NoAgent, tools |-> T]

ConfigureIfGiven(T, service, url, api_key) ==
    IF BothGiven(url, api_key) THEN configure(T, service, url, api_key)
    ELSE [raised |-> None, tools |-> T]

FinalApiKey(llm_provider, api_key) ==
    IF llm_provider = "openai" THEN Or(api_key, Environ.OPENAI_API_KEY)
    ELSE Or(api_key, Environ.OPENROUTER_API_KEY)

MediaAgentClient(s, radarr_url, radarr_api_key, sonarr_url, sonarr_api_key, llm_provider, api_key) ==
    IF s.raised # None THEN Raised(s.raised, s.tools)
    ELSE IF ~(\/ BothGiven(radarr_url, radarr_api_key)
              \/ BothGiven(sonarr_url, sonarr_api_key))
    THEN Raised("ValueError", s.tools)
    ELSE IF llm_provider \notin {"openai", "openrouter"}
    THEN Raised("ValueError", s.tools)
    ELSE IF ~Truthy(FinalApiKey(llm_provider, api_key))
    THEN Raised("ValueError", s.tools)
    ELSE [outcome |-> "MediaAgent",
          agent |-> [kind |-> "MediaAgent",
                     radarr_url |-> radarr_url,
                     radarr_api_key |-> radarr_api_key,
                     sonarr_url |-> sonarr_url,
                     sonarr_api_key |-> sonarr_api_key,
                     services_configured |->
                        (IF BothGiven(radarr_url, radarr_api_key)
                         THEN <<"Radarr">> ELSE <<>>) \o
                        (IF BothGiven(sonarr_url, sonarr_api_key)
                         THEN <<"Sonarr">> ELSE <<>>)],
          tools |-> s.tools]

MediaAgentSonarr(r, radarr_url, radarr_api_key, sonarr_url, sonarr_api_key, llm_provider, api_key) ==
    IF r.raised # None THEN Raised(r.raised, r.tools)
    ELSE MediaAgentClient(
             ConfigureIfGiven(r.tools, "sonarr", sonarr_url, sonarr_api_key),
             radarr_url, radarr_api_key, sonarr_url, sonarr_api_key,
             llm_provider, api_key)

MediaAgent(T, radarr_url, radarr_api_key, sonarr_url, sonarr_api_key, llm_provider, api_key) ==
    MediaAgentSonarr(
        ConfigureIfGiven(T, "radarr", radarr_url, radarr_api_key),
        radarr_url, radarr_api_key, sonarr_url, sonarr_api_key,
        llm_provider, api_key)

\* Direct calls of media_tools and of MediaAgent, in one process.
configure_radarr(url, api_key) ==
    /\ \E c \in {configure(tools, "radarr", url, api_key)} :
          /\ tools' = c.tools
          /\ last' = [op |-> "configure_radarr", url |-> url,
                      api_key |-> api_key, result |-> c.raised]
    /\ UNCHANGED <<data_dir_vars, auth_vars, credentials, setting_vars,
                   calls, session>>

configure_sonarr(url, api_key) ==
    /\ \E c \in {configure(tools, "sonarr", url, api_key)} :
          /\ tools' = c.tools
          /\ last' = [op |-> "configure_sonarr", url |-> url,
                      api_key |-> api_key, result |-> c.raised]
    /\ UNCHANGED <<data_dir_vars, auth_vars, credentials, setting_vars,
                   calls, session>>

new_MediaAgent(radarr_url, radarr_api_key, sonarr_url, sonarr_api_key, llm_provider, api_key) ==
    /\ \E m \in {MediaAgent(tools, radarr_url, radarr_api_key, sonarr_url,
                             sonarr_api_key, llm_provider, api_key)} :
          /\ tools' = m.tools
          /\ last' = [op |-> "MediaAgent",
                      radarr_url |-> radarr_url,
                      radarr_api_key |-> radarr_api_key,
                      sonarr_url |-> sonarr_url,
                      sonarr_api_key |-> sonarr_api_key,
                      llm_provider |-> llm_provider, api_key |-> api_key,
                      result |-> m.outcome, agent |-> m.agent]
    /\ UNCHANGED <<data_dir_vars, auth_vars, credentials, setting_vars,
                   calls, session>>

----------------------------------------------------------------------------
(* media_ui: one script run per action *)

\* Passwords typed into the signup and login forms.
UiPasswords == {"secret1", "pw1"}

\* The least length the signup form accepts for a password.
MinPasswordLen == 6

\* The chat history kept per session in the model.
MaxMessages == 2

\* all_creds.get(service, {}).get(field)
Cred(all_creds, service, field) ==
    IF service \in DOMAIN all_creds.value
    THEN all_creds.value[service][field]
    ELSE None

\* `if st.session_state.auto_init_attempted or st.session_state.agent: return'
AlreadyAttempted_AgentOnly(sess) == sess.agent # NoAgent

AlreadyAttempted(sess) == sess.auto_init_attempted \/ sess.agent # NoAgent

\* has_radarr / has_sonarr: the url and the api_key of the service are both
\* there.
HasService(all_creds, service) ==
    /\ Truthy(Cred(all_creds, service, "url"))
    /\ Truthy(Cred(all_creds, service, "api_key"))

\* The API key of the provider, from the credentials or the environment.
LlmApiKey(all_creds, llm_provider) ==
    IF llm_provider = "openrouter"
    THEN Or(Cred(all_creds, "openrouter", "api_key"),
            Environ.OPENROUTER_API_KEY)
    ELSE Or(Cred(all_creds, "openai", "api_key"), Environ.OPENAI_API_KEY)

\* The session once the agent m.agent was built from user_id's credentials.
WithAgent(sess, user_id, m, has_radarr, has_sonarr) ==
    [sess EXCEPT !.agent = m.agent,
                 !.agent_user = user_id,
                 !.configured_services =
                     (IF has_radarr THEN <<"Radarr">> ELSE <<>>) \o
                     (IF has_sonarr THEN <<"Sonarr">> ELSE <<>>)]

\* The try block of auto_initialize_agent, from the loaded credentials
\* on.  Every exception is swallowed; what MediaAgent did to the tools
\* before raising stays.
AutoInitBuilt(marked, m, has_radarr, has_sonarr) ==
    IF m.outcome # "MediaAgent" THEN [session |-> marked, tools |-> m.tools]
    ELSE [session |-> WithAgent(marked, marked.user_id, m,
                                has_radarr, has_sonarr),
          tools |-> m.tools]

AutoInitFrom(marked, T, all_creds, llm_provider) ==
    IF all_creds.outcome = InvalidToken
    THEN [session |-> marked, tools |-> T]
    ELSE IF ~(HasService(all_creds, "radarr") \/ HasService(all_creds, "sonarr"))
    THEN [session |-> marked, tools |-> T]
    ELSE IF ~Truthy(LlmApiKey(all_creds, llm_provider))
    THEN [session |-> marked, tools |-> T]
    ELSE AutoInitBuilt(
             marked,
             MediaAgent(T,
                IF HasService(all_creds, "radarr")
                THEN Cred(all_creds, "radarr", "url") ELSE None,
                IF HasService(all_creds, "radarr")
                THEN Cred(all_creds, "radarr", "api_key") ELSE None,
                IF HasService(all_creds, "sonarr")
                THEN Cred(all_creds, "sonarr", "url") ELSE None,
                IF HasService(all_creds, "sonarr")
                THEN Cred(all_creds, "sonarr", "api_key") ELSE None,
                llm_provider, LlmApiKey(all_creds, llm_provider)),
             HasService(all_creds, "radarr"),
             HasService(all_creds, "sonarr"))

\* auto_initialize_agent() of the session sess on the tools T, its
\* DatabaseManager holding the Fernet key `key'.
auto_initialize_agent(sess, T, key) ==
    IF AlreadyAttempted(sess) THEN [session |-> sess, tools |-> T]
    ELSE IF ~TruthyId(sess.user_id) THEN [session |-> sess, tools |-> T]
    ELSE AutoInitFrom(
             [sess EXCEPT !.auto_init_attempted = TRUE, !.attempts = @ + 1],
             T,
             ReadAllCredentials(key, sess.user_id),
             Or(get_setting(sess.user_id, "llm_provider"), "openrouter"))

\* A script run of session s that gets past the login check of main():
\* main() calls auto_initialize_agent() before the sidebar and the page.
LoggedIn(s) == Built(s) /\ TruthyId(session[s].user_id)

Run(s) == auto_initialize_agent(session[s], tools, stores[s])

\* configuration_page() loads the credentials before it renders a form; an
\* InvalidToken there ends the run.
SettingsPage(s) ==
    /\ LoggedIn(s)
    /\ Run(s).session.page = "settings"
    /\ ReadAllCredentials(stores[s], session[s].user_id).outcome = "dict"

\* login_page() up to the form it renders: has_any_users() is read in a
\* transaction of its own, before the submitted form is handled.
ui_login_page(s) ==
    /\ Built(s)
    /\ ~TruthyId(session[s].user_id)
    /\ session[s].rendered = "none"
    /\ session' = [session EXCEPT ![s].rendered =
                      IF has_any_users THEN "login" ELSE "signup"]
    /\ last' = [op |-> "ui_login_page", session |-> s,
                result |-> has_any_users]
    /\ UNCHANGED <<data_dir_vars, auth_vars, credentials, setting_vars,
                   calls, tools>>

\* The signup form submitted, in the run that rendered it.
ui_signup(s, new_username, new_password, confirm_password) ==
    /\ Built(s)
    /\ session[s].rendered = "signup"
    /\ IF \/ ~Truthy(new_username) \/ ~Truthy(new_password)
          \/ new_password # confirm_password
          \/ Len(new_password) < MinPasswordLen
       THEN /\ session' = [session EXCEPT ![s].rendered = "none"]
            /\ last' = [op |-> "ui_signup", session |-> s,
                        username |-> new_username, result |-> "error"]
            /\ UNCHANGED <<auth_vars, tools>>
       ELSE IF UsernameTaken(new_username)
       THEN /\ session' = [session EXCEPT ![s].rendered = "none"]
            /\ last' = [op |-> "ui_signup", session |-> s,
                        username |-> new_username, result |-> "failed"]
            /\ UNCHANGED <<auth_vars, tools>>
       ELSE LET user_id == users_seq + 1
                entered == [session[s] EXCEPT !.rendered = "none",
                                              !.user_id = user_id,
                                              !.username = new_username,
                                              !.attempts = 0]
                a == auto_initialize_agent(entered, tools, stores[s])
            IN /\ users' = users \cup
                     {[id |-> user_id, username |-> new_username,
                       password_hash |-> _hash_password(new_password)]}
               /\ users_seq' = user_id
               /\ pw_set' = [pw_set EXCEPT ![new_username] = new_password]
               /\ session' = [session EXCEPT ![s] = a.session]
               /\ tools' = a.tools
               /\ last' = [op |-> "ui_signup", session |-> s,
                           username |-> new_username, result |-> "created"]
    /\ UNCHANGED <<data_dir_vars, credentials, setting_vars, calls>>

\* The login form submitted, in the run that rendered it.
ui_login(s, username, password) ==
    /\ Built(s)
    /\ session[s].rendered = "login"
    /\ LET user_id == verify_user(username, password)
           entered == [session[s] EXCEPT !.rendered = "none",
                                         !.user_id = user_id,
                                         !.username = username,
                                         !.attempts = 0]
           a == auto_initialize_agent(entered, tools, stores[s])
       IN IF ~Truthy(username) \/ ~Truthy(password) \/ ~TruthyId(user_id)
          THEN /\ session' = [session EXCEPT ![s].rendered = "none"]
               /\ last' = [op |-> "ui_login", session |-> s,
                           username |-> username, result |-> "error"]
               /\ UNCHANGED tools
          ELSE /\ session' = [session EXCEPT ![s] = a.session]
               /\ tools' = a.tools
               /\ last' = [op |-> "ui_login", session |-> s,
                           username |-> username, result |-> "welcome"]
    /\ UNCHANGED <<data_dir_vars, auth_vars, credentials, setting_vars,
                   calls>>

\* A run of a logged-in session with no widget pressed.
ui_rerun(s) ==
    /\ LoggedIn(s)
    /\ session' = [session EXCEPT ![s] = Run(s).session]
    /\ tools' = Run(s).tools
    /\ last' = [op |-> "ui_rerun", session |-> s, result |-> None]
    /\ UNCHANGED <<data_dir_vars, auth_vars, credentials, setting_vars,
                   calls>>

\* The Chat / Settings buttons of the sidebar.
ui_navigate(s, page) ==
    /\ LoggedIn(s)
    /\ Run(s).session.page # page
    /\ session' = [session EXCEPT ![s] = [Run(s).session EXCEPT !.page = page]]
    /\ tools' = Run(s).tools
    /\ last' = [op |-> "ui_navigate", session |-> s, result |-> page]
    /\ UNCHANGED <<data_dir_vars, auth_vars, credentials, setting_vars,
                   calls>>

\* Save Radarr / Save Sonarr of the settings page.
ui_save_service(s, service, url, api_key) ==
    /\ SettingsPage(s)
    /\ session' = [session EXCEPT ![s] = Run(s).session]
    /\ tools' = Run(s).tools
    /\ IF Truthy(url) /\ Truthy(api_key)
       THEN credentials' = UpsertCredential(
                [user_id |-> session[s].user_id, service_name |-> service,
                 encrypted_url |-> EncryptOptional(stores[s], url),
                 encrypted_api_key |-> EncryptOptional(stores[s], api_key)])
       ELSE UNCHANGED credentials
    /\ last' = [op |-> "ui_save_service", session |-> s,
                service |-> service, url |-> url, api_key |-> api_key,
                result |-> Truthy(url) /\ Truthy(api_key)]
    /\ UNCHANGED <<data_dir_vars, auth_vars, setting_vars, calls>>

\* Delete Radarr / Delete Sonarr of the settings page.
ui_delete_service(s, service) ==
    /\ SettingsPage(s)
    /\ session' = [session EXCEPT ![s] = Run(s).session]
    /\ tools' = Run(s).tools
    /\ credentials' = credentials \ CredRows(session[s].user_id, service)
    /\ last' = [op |-> "ui_delete_service", session |-> s,
                service |-> service, result |-> None]
    /\ UNCHANGED <<data_dir_vars, auth_vars, setting_vars, calls>>

\* Save AI Settings: the provider and the model are saved, then the API
\* key of each provider that was filled in (with no url).  The model field
\* is left empty here.
ui_save_ai(s, selected_provider, openrouter_api_key, openai_api_key) ==
    /\ SettingsPage(s)
    /\ session' = [session EXCEPT ![s] = Run(s).session]
    /\ tools' = Run(s).tools
    /\ LET user_id == session[s].user_id
           key_row(service, k) ==
               [user_id |-> user_id, service_name |-> service,
                encrypted_url |-> NULL,
                encrypted_api_key |-> EncryptOptional(stores[s], k)]
           written ==
               (IF Truthy(openrouter_api_key)
                THEN {key_row("openrouter", openrouter_api_key)} ELSE {})
               \cup
               (IF Truthy(openai_api_key)
                THEN {key_row("openai", openai_api_key)} ELSE {})
       IN /\ settings' =
                 (UpsertSetting([user_id |-> user_id,
                                 setting_key |-> "llm_provider",
                                 setting_value |-> selected_provider])
                    \ SettingRows(user_id, "llm_model"))
                 \cup {[user_id |-> user_id, setting_key |-> "llm_model",
                        setting_value |-> ""]}
          /\ setting_saved' =
                 [setting_saved EXCEPT
                     ![<<user_id, "llm_provider">>] = selected_provider,
                     ![<<user_id, "llm_model">>] = ""]
          /\ credentials' =
                 {r \in credentials :
                     ~\E w \in written : /\ w.user_id = r.user_id
                                         /\ w.service_name = r.service_name}
                 \cup written
    /\ last' = [op |-> "ui_save_ai", session |-> s,
                provider |-> selected_provider, result |-> None]
    /\ UNCHANGED <<data_dir_vars, auth_vars, calls>>

\* The Initialize Agent button of the settings page.  The credentials are
\* read again with the session's user_id; the services are judged by their
\* url alone, and an exception of MediaAgent is shown, not raised.
ui_initialize_agent(s) ==
    /\ SettingsPage(s)
    /\ LET a == Run(s)
           user_id == session[s].user_id
           all_creds == ReadAllCredentials(stores[s], user_id)
           llm_provider ==
               Or(get_setting(user_id, "llm_provider"), "openrouter")
           llm_api_key == Cred(all_creds, llm_provider, "api_key")
           m == MediaAgent(a.tools,
                           Cred(all_creds, "radarr", "url"),
                           Cred(all_creds, "radarr", "api_key"),
                           Cred(all_creds, "sonarr", "url"),
                           Cred(all_creds, "sonarr", "api_key"),
                           llm_provider, llm_api_key)
       IN IF \/ /\ ~Truthy(Cred(all_creds, "radarr", "url"))
                /\ ~Truthy(Cred(all_creds, "sonarr", "url"))
             \/ ~Truthy(llm_api_key)
          THEN /\ session' = [session EXCEPT ![s] = a.session]
               /\ tools' = a.tools
               /\ last' = [op |-> "ui_initialize_agent", session |-> s,
                           result |-> "error"]
          ELSE IF m.outcome # "MediaAgent"
          THEN /\ session' = [session EXCEPT ![s] = a.session]
               /\ tools' = m.tools
               /\ last' = [op |-> "ui_initialize_agent", session |-> s,
                           result |-> m.outcome]
          ELSE /\ session' = [session EXCEPT ![s] =
                     [a.session EXCEPT
                        !.agent = m.agent,
                        !.agent_user = user_id,
                        !.configured_services =
                           (IF Truthy(Cred(all_creds, "radarr", "url"))
                            THEN <<"Radarr">> ELSE <<>>) \o
                           (IF Truthy(Cred(all_creds, "sonarr", "url"))
                            THEN <<"Sonarr">> ELSE <<>>),
                        !.page = "chat"]]
               /\ tools' = m.tools
               /\ last' = [op |-> "ui_initialize_agent", session |-> s,
                           result |-> m.outcome]
    /\ UNCHANGED <<data_dir_vars, auth_vars, credentials, setting_vars,
                   calls>>

\* The request a tool of `service' sends when the agent calls it: the
\* tool's url_template and headers as they are at that moment.
ToolRequest(T, service) ==
    [url |-> T[service].url_base, api_key |-> T[service].header]

\* A prompt entered in the chat: the user's message is appended, the agent
\* runs and calls a tool of `service', and the answer is appended.
ui_chat(s, service) ==
    /\ LoggedIn(s)
    /\ Run(s).session.page = "chat"
    /\ Run(s).session.agent # NoAgent
    /\ Len(session[s].messages) < MaxMessages
    /\ session' = [session EXCEPT ![s] =
           [Run(s).session EXCEPT !.messages = @ \o <<"user", "assistant">>]]
    /\ tools' = Run(s).tools
    /\ last' = [op |-> "ui_chat", session |-> s, service |-> service,
                agent |-> Run(s).session.agent,
                request |-> ToolRequest(Run(s).tools, service),
                result |-> None]
    /\ UNCHANGED <<data_dir_vars, auth_vars, credentials, setting_vars,
                   calls>>

\* Clear Chat of the sidebar.
ui_clear_chat(s) ==
    /\ LoggedIn(s)
    /\ Run(s).session.page = "chat"
    /\ session[s].messages # <<>>
    /\ session' = [session EXCEPT ![s] =
                      [Run(s).session EXCEPT !.messages = <<>>]]
    /\ tools' = Run(s).tools
    /\ last' = [op |-> "ui_clear_chat", session |-> s, result |-> None]
    /\ UNCHANGED <<data_dir_vars, auth_vars, credentials, setting_vars,
                   calls>>

\* Logout of the sidebar.  attempts is kept until the next login so that
\* an attempt made by this very run stays visible.
Logout_KeepsAgent(sess) ==
    [sess EXCEPT !.user_id = NoneId, !.username = None,
                 !.messages = <<>>, !.configured_services = <<>>,
                 !.page = "chat", !.auto_init_attempted = FALSE]

Logout_KeepsAttemptFlag(sess) ==
    [sess EXCEPT !.user_id = NoneId, !.username = None, !.agent = NoAgent,
                 !.messages = <<>>, !.configured_services = <<>>,
                 !.page = "chat"]

Logout(sess) ==
    [sess EXCEPT !.user_id = NoneId, !.username = None, !.agent = NoAgent,
                 !.messages = <<>>, !.configured_services = <<>>,
                 !.page = "chat", !.auto_init_attempted = FALSE]

ui_logout(s) ==
    /\ LoggedIn(s)
    /\ session' = [session EXCEPT ![s] = Logout(Run(s).session)]
    /\ tools' = Run(s).tools
    /\ last' = [op |-> "ui_logout", session |-> s,
                before |-> session[s], result |-> None]
    /\ UNCHANGED <<data_dir_vars, auth_vars, credentials, setting_vars,
                   calls>>

----------------------------------------------------------------------------
(* Foreign keys *)

\* PRAGMA foreign_keys on a connection as the store opens it:
\* sqlite3.connect(self.db_path) and nothing else.  SQLite enforces the
\* declared FOREIGN KEY ... ON DELETE CASCADE only on a connection that has
\* turned the pragma on, and no statement of the store does.
ForeignKeys == FALSE

\* Outside the store's methods: DELETE FROM users WHERE id = ?, committed on
\* such a connection.  AUTOINCREMENT does not hand out the id again.
delete_user_row(user_id) ==
    /\ \E r \in users : r.id = user_id
    /\ users' = {r \in users : r.id # user_id}
    /\ pw_set' = [n \in Usernames |->
                    IF \E r \in users : r.id = user_id /\ r.username = n
                    THEN None ELSE pw_set[n]]
    /\ IF ForeignKeys
       THEN /\ credentials' = {r \in credentials : r.user_id # user_id}
            /\ settings' = {r \in settings : r.user_id # user_id}
            /\ setting_saved' =
                  [x \in DOMAIN setting_saved |->
                     IF x[1] = user_id THEN None ELSE setting_saved[x]]
       ELSE UNCHANGED <<credentials, setting_vars>>
    /\ last' = [op |-> "delete_user_row", user_id |-> user_id,
                result |-> None]
    /\ UNCHANGED <<data_dir_vars, users_seq, calls, ui_vars>>

----------------------------------------------------------------------------
(* Specifications *)

\* The callers' steps, over the inputs they draw from.
Construct(EncryptionKeys) ==
    \E i \in StoreIds, k \in EncryptionKeys : NewStore(i, k)

AuthOps ==
    \/ \E i \in StoreIds, n \in Usernames, p \in Passwords :
           create_user(i, n, p)
    \/ \E i \in StoreIds, n \in Usernames, o \in Passwords, p \in Passwords :
           change_password(i, n, o, p)

CredOps(Ids, Names, UrlArgs, ApiKeyArgs) ==
    \/ \E i \in StoreIds, u \in Ids, s \in Names,
          url \in UrlArgs, api_key \in ApiKeyArgs :
           save_credentials(i, u, s, url, api_key)
    \/ \E i \in StoreIds, u \in Ids, s \in Names :
           delete_credentials(i, u, s)

SettingOps(Ids) ==
    \E i \in StoreIds, u \in Ids, k \in SettingKeys, v \in SettingValues :
        save_setting(i, u, k, v)

\* encryption_key values with which __init__ turns to the key file: the
\* default None (media_ui.py builds its store this way) and "".
NoExplicitKey == {None, ""}

\* The login check of main() and login_page() of session s.
UiEnter(s, Names) ==
    \/ ui_login_page(s)
    \/ \E n \in Names \cup {""}, p \in UiPasswords :
           ui_signup(s, n, p, "secret1")
    \/ \E n \in Names, p \in UiPasswords : ui_login(s, n, p)

\* The sidebar and the chat page of session s.
UiSidebar(s) ==
    \/ ui_rerun(s)
    \/ \E page \in {"chat", "settings"} : ui_navigate(s, page)
    \/ \E service \in MediaServices : ui_chat(s, service)
    \/ ui_clear_chat(s)
    \/ ui_logout(s)

\* The settings page of session s.
UiSettings(s, Names, UrlArgs, ApiKeyArgs, Providers, LlmKeyArgs) ==
    \/ \E service \in Names, url \in UrlArgs, api_key \in ApiKeyArgs :
           ui_save_service(s, service, url, api_key)
    \/ \E service \in Names : ui_delete_service(s, service)
    \/ \E p \in Providers, k \in LlmKeyArgs : ui_save_ai(s, p, k, "")
    \/ ui_initialize_agent(s)

\* Direct calls of media_tools and MediaAgent.
ToolOps(UrlArgs, ApiKeyArgs, LlmKeyArgs) ==
    \/ \E url \in UrlArgs \ {None}, api_key \in ApiKeyArgs \ {None} :
           configure_radarr(url, api_key)
    \/ \E url \in UrlArgs \ {None}, api_key \in ApiKeyArgs \ {None} :
           configure_sonarr(url, api_key)
    \/ \E ru \in UrlArgs, rk \in ApiKeyArgs, su \in UrlArgs,
          sk \in ApiKeyArgs, p \in {"openrouter", "openai"},
          k \in LlmKeyArgs :
           new_MediaAgent(ru, rk, su, sk, p, k)

\* Every operation on every input, as one step each.
Next ==
    \/ Construct(ExplicitKeys)
    \/ AuthOps
    \/ CredOps(UserIds, Services, Urls, ApiKeys)
    \/ SettingOps(UserIds)
    \/ ToolOps({None} \cup ServiceUrls, {None} \cup ServiceKeys,
               {None} \cup LlmKeys)
    \/ \E s \in Sessions : UiEnter(s, Usernames)
    \/ \E s \in Sessions : UiSidebar(s)
    \/ \E s \in Sessions :
           UiSettings(s, MediaServices, {""} \cup ServiceUrls,
                      {""} \cup ServiceKeys, {"openrouter", "openai"},
                      {""} \cup LlmKeys)

Spec == Init /\ [][Next]_vars

\* The auth service, on stores built with any encryption_key.
NextAuth == Construct(ExplicitKeys) \/ AuthOps

SpecAuth == Init /\ [][NextAuth]_vars

\* The credential service for two users and two services, on stores that
\* take their key from the key file.
NextCred ==
    Construct(NoExplicitKey) \/ CredOps(UserIds, Services, Urls, ApiKeys)

SpecCred == Init /\ [][NextCred]_vars

\* Credentials and settings of two users under one service name and one
\* setting key, each field absent or given, on stores built the way
\* media_ui.py builds its store.
NextTenant ==
    \/ Construct({None})
    \/ CredOps(UserIds, {"radarr"}, Urls \ {""}, ApiKeys \ {""})
    \/ SettingOps(UserIds)

SpecTenant == Init /\ [][NextTenant]_vars

\* The credential service of one user, on stores built with any
\* encryption_key.
NextKeys == Construct(ExplicitKeys) \/ CredOps({1}, Services, Urls, ApiKeys)

SpecKeys == Init /\ [][NextKeys]_vars

\* As SpecKeys, with stored ciphertexts altered behind the store's back.
Tamper ==
    \E s \in Services, c \in {"encrypted_url", "encrypted_api_key"} :
        FlipByte(1, s, c)

SpecTamper == Init /\ [][NextKeys \/ Tamper]_vars

\* SpecTenant together with signup: users, credentials and settings rows
\* side by side.
NextStore ==
    \/ NextTenant
    \/ \E i \in StoreIds, n \in Usernames : create_user(i, n, "pw1")

SpecStore == Init /\ [][NextStore]_vars

\* The settings service of two users over the setting keys the UI saves.
NextSettings ==
    \/ Construct({None})
    \/ \E i \in StoreIds, u \in UserIds, k \in AllSettingKeys,
          v \in SettingValues :
           save_setting(i, u, k, v)

SpecSettings == Init /\ [][NextSettings]_vars

\* Signup while the users table has ids in UserIds left to hand out.
create_user_WhileIdsLast(i, username, password) ==
    /\ users_seq < Cardinality(Usernames)
    /\ create_user(i, username, password)

\* Signup, one credential and one setting per user, and users rows deleted
\* behind the store's back.
NextCascade ==
    \/ Construct({None})
    \/ \E i \in StoreIds, n \in Usernames :
           create_user_WhileIdsLast(i, n, "pw1")
    \/ CredOps(UserIds, {"radarr"}, {"http://a"}, {None})
    \/ SettingOps(UserIds)
    \/ \E u \in UserIds : delete_user_row(u)

SpecCascade == Init /\ [][NextCascade]_vars

\* All three services side by side: signup of two users and changes of
\* password, credentials of both users under one service name and of user 1
\* under a second one, and a setting of user 1.
NextFrame ==
    \/ Construct({None})
    \/ \E i \in StoreIds, n \in Usernames : create_user(i, n, "pw1")
    \/ \E i \in StoreIds, n \in Usernames, o \in Passwords :
           change_password(i, n, o, "pw2")
    \/ CredOps(UserIds, {"radarr"}, {"http://a"}, {None})
    \/ CredOps({1}, {"sonarr"}, {"http://a"}, {None})
    \/ SettingOps({1})

SpecFrame == Init /\ [][NextFrame]_vars

\* The auth service under callers whose calls overlap: change_password runs
\* as its two transactions, between which any other caller's transaction
\* may commit.
ChangePasswordSteps ==
    \/ \E c \in Callers, i \in StoreIds, n \in Usernames,
          o \in Passwords, p \in Passwords :
           change_password_verify(c, i, n, o, p)
    \/ \E c \in Callers : change_password_update(c)

NextChangeRace ==
    \/ Construct({None})
    \/ \E i \in StoreIds, n \in Usernames, p \in Passwords :
           create_user(i, n, p)
    \/ ChangePasswordSteps

SpecChangeRace == Init /\ [][NextChangeRace]_vars

\* Stores built without an explicit key by constructions that overlap, and
\* credentials of one user saved and deleted through the stores built.
InitSteps ==
    \/ \E i \in StoreIds : init_exists(i)
    \/ \E i \in StoreIds : init_read(i)
    \/ \E i \in StoreIds : init_open(i)
    \/ \E i \in StoreIds, k \in GenKeys : init_write(i, k)

NextInitRace == InitSteps \/ CredOps({1}, Services, {"http://a"}, {None})

SpecInitRace == Init /\ [][NextInitRace]_vars

\* Signup by callers whose create_user calls overlap, one call per caller.
\* Direct use of media_tools and MediaAgent in one process.
NextTools ==
    \/ \E url \in ServiceUrls, api_key \in ServiceKeys :
           configure_radarr(url, api_key)
    \/ \E url \in ServiceUrls, api_key \in ServiceKeys :
           configure_sonarr(url, api_key)
    \/ \E ru \in {None, "http://a"}, rk \in {None, "k1"},
          su \in {None, "http://b"}, sk \in {None, "k2"},
          p \in {"openrouter", "openai"}, k \in {None} \cup LlmKeys :
           new_MediaAgent(ru, rk, su, sk, p, k)

SpecTools == Init /\ [][NextTools]_vars

\* One UI session on a data directory that holds its own account and one
\* created with DatabaseManager.create_user.
NextSession ==
    \/ NewStore(1, None)
    \/ create_user(1, "bob", "secret1")
    \/ UiEnter(1, Usernames)
    \/ UiSidebar(1)
    \/ UiSettings(1, {"radarr"}, {"", "http://a"}, {"k1"},
                  {"openrouter"}, LlmKeys)

SpecSession == Init /\ [][NextSession]_vars

\* Several UI sessions on one data directory, at the login page.
NextUiSignup ==
    \/ \E s \in Sessions : NewStore(s, None)
    \/ \E s \in Sessions : UiEnter(s, Usernames)
    \/ \E s \in Sessions : ui_rerun(s)
    \/ \E s \in Sessions : ui_logout(s)

SpecUiSignup == Init /\ [][NextUiSignup]_vars

\* Two UI sessions of one process, alice in the first and bob in the
\* second, each with Radarr credentials of their own.
NextAgents ==
    \/ \E s \in {1, 2} : NewStore(s, None)
    \/ \E n \in Usernames : create_user(1, n, "secret1")
    \/ \E s \in {1, 2} : ui_login_page(s)
    \/ ui_login(1, "alice", "secret1")
    \/ ui_login(2, "bob", "secret1")
    \/ \E s \in {1, 2}, page \in {"chat", "settings"} : ui_navigate(s, page)
    \/ ui_save_service(1, "radarr", "http://a", "k1")
    \/ ui_save_service(2, "radarr", "http://b", "k2")
    \/ \E s \in {1, 2} : ui_save_ai(s, "openrouter", "sk-1", "")
    \/ \E s \in {1, 2} : ui_initialize_agent(s)
    \/ \E s \in {1, 2}, service \in MediaServices : ui_chat(s, service)
    \/ \E s \in {1, 2} : ui_logout(s)

SpecAgents == Init /\ [][NextAgents]_vars

NextSignup ==
    \/ Construct({None})
    \/ \E c \in Callers, n \in Usernames, p \in Passwords :
           create_user_invoke(c, n, p)
    \/ \E c \in Callers, i \in StoreIds : create_user_return(c, i)

SpecSignup == Init /\ [][NextSignup]_vars

----------------------------------------------------------------------------
(* Claims about the auth service *)

\* The id of the users row named n (NoneId when there is none).
IdOf(n) == IF UserRows(n) # {} THEN FetchOne(UserRows(n)).id ELSE NoneId

\* C1: create_user with a username that is already in the users table
\* returns False and leaves the users table as it was: the account keeps its
\* id and password_hash, and verify_user with the password it had still
\* returns its id.
C1_DuplicateCreateRejected ==
    [][ \A n \in Usernames, orig \in Passwords :
          ( /\ last'.op = "create_user"
            /\ last'.username = n
            /\ UserRows(n) # {}
            /\ verify_user(n, orig) # NoneId ) =>
              /\ last'.result = FALSE
              /\ users' = users
              /\ users_seq' = users_seq
              /\ IdOf(n)' = IdOf(n)
              /\ verify_user(n, orig)' = IdOf(n) ]_vars

\* A second create_user of an existing name with another password was refused.
C1_Witness ==
    /\ last.op = "create_user"
    /\ last.result = FALSE
    /\ pw_set[last.username] # None
    /\ pw_set[last.username] # last.password
    /\ verify_user(last.username, pw_set[last.username]) = IdOf(last.username)

\* C2: verify_user(n, p) returns the id of user n exactly when a user named n
\* exists and p is the password most recently set for n by create_user or by
\* a successful change_password; otherwise it returns not-found.
C2_VerifyIffCurrentPassword ==
    \A n \in Usernames, p \in Passwords :
        IF user_exists(n) /\ p = pw_set[n]
        THEN verify_user(n, p) = IdOf(n) /\ verify_user(n, p) # NoneId
        ELSE verify_user(n, p) = NoneId

\* Two accounts exist, one of which has just changed its password.
C2_Witness ==
    /\ Cardinality(users) = 2
    /\ last.op = "change_password"
    /\ last.result = TRUE
    /\ last.old_password # last.new_password
    /\ verify_user(last.username, last.new_password) = IdOf(last.username)
    /\ verify_user(last.username, last.old_password) = NoneId

\* C3: change_password fails closed: when verify_user(n, old) is not-found
\* (unknown user or wrong old password) it returns False and no
\* password_hash of the users table changes.
C3_ChangePasswordFailsClosed ==
    [][ \A n \in Usernames, old \in Passwords :
          ( /\ last'.op = "change_password"
            /\ last'.username = n
            /\ last'.old_password = old
            /\ verify_user(n, old) = NoneId ) =>
              /\ last'.result = FALSE
              /\ users' = users ]_vars

\* A change_password with a wrong old password for an existing user was
\* refused.
C3_Witness ==
    /\ last.op = "change_password"
    /\ last.result = FALSE
    /\ user_exists(last.username)
    /\ pw_set[last.username] # last.old_password
    /\ pw_set[last.username] # last.new_password

\* C4: after change_password(n, old, new) returns True with old # new,
\* verify_user(n, old) is not-found and verify_user(n, new) returns the id
\* that verify_user(n, old) returned before the change.
C4_ChangePasswordSwitches ==
    [][ \A n \in Usernames, old \in Passwords, new \in Passwords :
          ( /\ last'.op = "change_password"
            /\ last'.username = n
            /\ last'.old_password = old
            /\ last'.new_password = new
            /\ last'.result = TRUE
            /\ old # new ) =>
              /\ verify_user(n, old) # NoneId
              /\ verify_user(n, old)' = NoneId
              /\ verify_user(n, new)' = verify_user(n, old) ]_vars

\* A password was changed to a different one.
C4_Witness ==
    /\ last.op = "change_password"
    /\ last.result = TRUE
    /\ last.old_password # last.new_password
    /\ verify_user(last.username, last.new_password) # NoneId
----------------------------------------------------------------------------
(* Claims about the credential and settings services *)

\* C5: the credentials table holds at most one row per (user_id,
\* service_name), and get_credentials(u, s) returns the url and api_key of
\* the most recent save_credentials(u, s, ...) that no delete_credentials(u, s)
\* followed: a save makes it return the saved pair, a delete makes it return
\* not-found, and every other step leaves what it returns as it was.
C5_UpsertLatestSave ==
    [][ \A u \in UserIds, s \in Services :
          /\ Cardinality(CredRows(u, s))' <= 1
          /\ \A j \in StoreIds : Built(j) =>
               IF /\ last'.op = "save_credentials"
                  /\ last'.user_id = u /\ last'.service_name = s
               THEN stores[j] = last'.key =>
                      /\ get_credentials(j, u, s)'.outcome = "dict"
                      /\ get_credentials(j, u, s)'.url = last'.url
                      /\ get_credentials(j, u, s)'.api_key = last'.api_key
               ELSE IF /\ last'.op = "delete_credentials"
                       /\ last'.user_id = u /\ last'.service_name = s
               THEN get_credentials(j, u, s)'.outcome = "None"
               ELSE get_credentials(j, u, s)' = get_credentials(j, u, s) ]_vars

\* The keys of the stores built so far: what a get_credentials or a
\* get_all_credentials call can be made with.
KeysInUse == {stores[j] : j \in {i \in StoreIds : Built(i)}}

\* What a step does to the views of user b, when it is no save or delete
\* made with user id b: nothing.
ViewsKept(b) ==
    /\ \A k \in SettingKeys : get_setting(b, k)' = get_setting(b, k)
    /\ get_all_settings(b)' = get_all_settings(b)
    /\ \A key \in KeysInUse :
         /\ ReadAllCredentials(key, b)' = ReadAllCredentials(key, b)
         /\ \A s \in Services :
              ReadCredentials(key, b, s)' = ReadCredentials(key, b, s)

\* C6: multi-tenant isolation: what get_credentials, get_all_credentials,
\* get_setting and get_all_settings return for user id b changes only in a
\* save or delete made with user id b; a step made with another user id,
\* even on the same service_name or setting key, leaves all four unchanged.
C6_TenantIsolation ==
    [][ \A b \in UserIds :
          ~( /\ last'.op \in {"save_credentials", "delete_credentials",
                              "save_setting"}
             /\ last'.user_id = b ) => ViewsKept(b) ]_vars

\* User 1 has just saved under the service name and the setting key that
\* user 2 also uses, and user 2 still reads its own, different values.
C6_Witness ==
    /\ last.op \in {"save_credentials", "save_setting"}
    /\ last.user_id = 1
    /\ \E j \in StoreIds :
         /\ Built(j)
         /\ get_credentials(j, 1, "radarr").outcome = "dict"
         /\ get_credentials(j, 2, "radarr").outcome = "dict"
         /\ get_credentials(j, 1, "radarr").url = "http://a"
         /\ get_credentials(j, 2, "radarr").url = None
         /\ get_credentials(j, 2, "radarr").api_key = "k1"
    /\ get_setting(1, "llm_provider") = "openai"
    /\ get_setting(2, "llm_provider") = "openrouter"

\* C7: round trip: every non-null string passed as url or as api_key to
\* save_credentials, the empty string included, is what a following
\* get_credentials on a store with the same key returns in that field.
C7_RoundTripEveryString ==
    [][ \A j \in StoreIds, u \in UserIds, s \in Services :
          ( /\ last'.op = "save_credentials"
            /\ last'.user_id = u /\ last'.service_name = s
            /\ Built(j) /\ stores[j] = last'.key ) =>
              /\ get_credentials(j, u, s)'.outcome = "dict"
              /\ last'.url # None =>
                     get_credentials(j, u, s)'.url = last'.url
              /\ last'.api_key # None =>
                     get_credentials(j, u, s)'.api_key = last'.api_key ]_vars

Range(f) == {f[x] : x \in DOMAIN f}

\* C8: an absent (None) url or api_key is stored as NULL, not as an empty
\* text or a ciphertext, and for a NULL column get_credentials and
\* get_all_credentials return None in that field and hand nothing but the
\* row's ciphertexts to the cipher.
C8_AbsentStoredAsNull ==
    /\ last.op = "save_credentials" =>
         /\ CredRows(last.user_id, last.service_name) # {}
         /\ \A r \in CredRows(last.user_id, last.service_name) :
              /\ last.url = None => r.encrypted_url = NULL
              /\ last.api_key = None => r.encrypted_api_key = NULL
    /\ \A j \in StoreIds, r \in credentials : Built(j) =>
         LET one == get_credentials(j, r.user_id, r.service_name)
             all == get_all_credentials(j, r.user_id)
             ciphertexts == {r.encrypted_url, r.encrypted_api_key} \ {NULL}
         IN /\ one.outcome = "dict" =>
                 /\ r.encrypted_url = NULL => one.url = None
                 /\ r.encrypted_api_key = NULL => one.api_key = None
                 /\ Range(one.cipher) = ciphertexts
            /\ all.outcome = "dict" =>
                 /\ r.encrypted_url = NULL =>
                        all.value[r.service_name].url = None
                 /\ r.encrypted_api_key = NULL =>
                        all.value[r.service_name].api_key = None
                 /\ \A c \in all.cipher : NULL \notin Range(c)

\* A save with url absent and api_key given has just been made, and both
\* reads return the url as None.
C8_Witness ==
    /\ last.op = "save_credentials"
    /\ last.url = None
    /\ last.api_key = "k1"
    /\ \E r \in CredRows(last.user_id, last.service_name) :
         /\ r.encrypted_url = NULL
         /\ r.encrypted_api_key # NULL
    /\ ReadCredentials(last.key, last.user_id, last.service_name).url = None
    /\ ReadCredentials(last.key, last.user_id, last.service_name).cipher
           # <<>>
    /\ ReadAllCredentials(last.key, last.user_id).outcome = "dict"

\* The plaintext a column was encrypted from (None for NULL).
PlainOf(c) == IF FalsyColumn(c) THEN None ELSE c.pt

\* C9: key stability: all stores built without an explicit key on the data
\* directory hold the key of the key file, which the first of them
\* generated; each of them returns, for a row that one of them encrypted, the
\* plaintexts that were saved.
C9_KeyStability ==
    /\ \A i \in keyless : stores[i] = key_file /\ IsFernetKey(key_file)
    /\ \A i \in keyless, j \in keyless : stores[j] = stores[i]
    /\ \A i \in keyless, j \in keyless, r \in credentials :
         (\A c \in {r.encrypted_url, r.encrypted_api_key} \ {NULL} :
              c.key = stores[i]) =>
           /\ get_credentials(j, r.user_id, r.service_name).outcome = "dict"
           /\ get_credentials(j, r.user_id, r.service_name).url =
                  PlainOf(r.encrypted_url)
           /\ get_credentials(j, r.user_id, r.service_name).api_key =
                  PlainOf(r.encrypted_api_key)
    /\ \A j \in keyless :
         ( /\ last.op = "save_credentials"
           /\ last.key = key_file ) =>
             /\ Truthy(last.url) =>
                  get_credentials(j, last.user_id, last.service_name).url =
                      last.url
             /\ Truthy(last.api_key) =>
                  get_credentials(j, last.user_id, last.service_name).api_key
                      = last.api_key

\* A second store has just been built without an explicit key, after the
\* first saved a url and an api_key, and the second reads both back.
C9_Witness ==
    /\ keyless = {1, 2}
    /\ last.op = "__init__"
    /\ last.encryption_key = None
    /\ get_credentials(last.store, 1, "radarr").outcome = "dict"
    /\ get_credentials(last.store, 1, "radarr").url = "http://a"
    /\ get_credentials(last.store, 1, "radarr").api_key = "k1"

\* A column the store j cannot authenticate: a ciphertext made under another
\* key, or one altered after it was written.
Unauthentic(j, c) == ~FalsyColumn(c) /\ (c.key # stores[j] \/ ~c.intact)

\* C10: when a stored encrypted field was produced under a key other than
\* the reading store's, or was altered after it was written, get_credentials
\* of that row and get_all_credentials of that user end with a decryption
\* error (InvalidToken) and return nothing.
C10_DecryptionFails ==
    \A j \in StoreIds, r \in credentials :
        ( /\ Built(j)
          /\ \/ Unauthentic(j, r.encrypted_url)
             \/ Unauthentic(j, r.encrypted_api_key) ) =>
            /\ get_credentials(j, r.user_id, r.service_name).outcome
                   = InvalidToken
            /\ get_all_credentials(j, r.user_id).outcome = InvalidToken

\* A byte of one stored ciphertext has just been flipped, another row holds a
\* ciphertext of another key, and reading either row fails.
C10_Witness ==
    /\ last.op = "flip_byte"
    /\ \E j \in StoreIds, r \in credentials, q \in credentials :
         /\ Built(j)
         /\ ~FalsyColumn(r.encrypted_api_key)
         /\ r.encrypted_api_key.key = stores[j]
         /\ ~r.encrypted_api_key.intact
         /\ r.encrypted_url = NULL
         /\ ~FalsyColumn(q.encrypted_url)
         /\ q.encrypted_url.key # stores[j]
         /\ q.encrypted_url.intact
         /\ get_credentials(j, r.user_id, r.service_name).outcome
                = InvalidToken
         /\ get_credentials(j, q.user_id, q.service_name).outcome
                = InvalidToken

----------------------------------------------------------------------------
(* Claims about what the database holds and about concurrent callers *)

\* A plaintext string written to a TEXT column as it is.
PlainText(x) == [sql |-> "TEXT", text |-> x]

\* C11: in every reachable state each encrypted_url and encrypted_api_key
\* of the credentials table is NULL or a token made with the key of a built
\* store from a non-empty plaintext; it is never the plaintext itself, and
\* the url and api_key of the most recent save_credentials are not what
\* their row holds.
C11_OnlyCiphertextStored ==
    /\ \A r \in credentials :
         \A c \in {r.encrypted_url, r.encrypted_api_key} :
            \/ c = NULL
            \/ \E i \in StoreIds, pt \in (Urls \cup ApiKeys) \ {None, ""} :
                  /\ Built(i)
                  /\ c = FernetEncrypt(stores[i], pt)
    /\ last.op = "save_credentials" =>
         \A r \in CredRows(last.user_id, last.service_name) :
            /\ r.encrypted_url # PlainText(last.url)
            /\ r.encrypted_api_key # PlainText(last.api_key)

C11_Witness ==
    /\ last.op = "save_credentials"
    /\ last.url = "http://a"
    /\ last.api_key = "k1"
    /\ \E r \in CredRows(last.user_id, last.service_name) :
          /\ r.encrypted_url = FernetEncrypt(last.key, "http://a")
          /\ r.encrypted_api_key = FernetEncrypt(last.key, "k1")

\* C12: every public operation is one transaction, so no other caller's
\* operation takes effect between its steps; for change_password: while a
\* caller is between its verification of the old password and its update of
\* the hash, no step changes the users table.
C12_OneTransactionPerCall ==
    [][ \A c \in Callers :
          ( /\ calls[c].op = "change_password"
            /\ calls'[c] = calls[c] ) => users' = users ]_vars

\* The same, by its effect: a change_password that returns True replaces a
\* hash that is, at that moment, the hash of the old_password it was given.
C12_UpdateReplacesVerifiedHash ==
    [][ \A c \in Callers :
          ( /\ calls[c].op = "change_password"
            /\ calls'[c] = Idle ) =>
              verify_user(calls[c].username, calls[c].old_password)
                 = calls[c].user_id ]_vars

\* The callers whose create_user(n, .) has returned, and those of them that
\* were returned True.
Returned(n) ==
    {c \in Callers : /\ calls[c].op = "create_user"
                     /\ calls[c].stage = "returned"
                     /\ calls[c].username = n}

Winners(n) == {c \in Returned(n) : calls[c].result}

\* C13: of the overlapping create_user calls with one username that have
\* returned, exactly one returned True and the others False, and the users
\* table holds exactly one row of that username, with the hash of the
\* password of the call that returned True.
C13_OneSignupWins ==
    \A n \in Usernames :
       Returned(n) # {} =>
          /\ Cardinality(Winners(n)) = 1
          /\ \A c \in Returned(n) \ Winners(n) : calls[c].result = FALSE
          /\ Cardinality(UserRows(n)) = 1
          /\ \A w \in Winners(n), r \in UserRows(n) :
                r.password_hash = _hash_password(calls[w].password)

C13_Witness ==
    \E c \in Callers, d \in Callers :
       /\ c \in Winners("alice")
       /\ d \in Returned("alice") \ Winners("alice")
       /\ calls[c].password # calls[d].password
       /\ \A e \in Callers : calls[e] # Idle => calls[e].stage = "returned"

\* The stores whose stepwise construction is under way.
Constructing == {i \in StoreIds : init_pc[i] \in {"read", "generate", "opened"}}

\* C14: for overlapping constructions without an explicit key on an empty
\* data directory, the key file is written at most once; once no
\* construction is under way, every construction has produced a store that
\* holds the key in the key file; and what one store saved, every store
\* decrypts.
C14_KeyGeneratedOnce ==
    /\ Cardinality({i \in StoreIds : init_pc[i] = "wrote"}) <= 1
    /\ Constructing = {} =>
          \A i \in StoreIds :
             init_pc[i] # "start" => Built(i) /\ stores[i] = key_file
    /\ \A i \in StoreIds :
          Built(i) => get_credentials(i, 1, "radarr").outcome # InvalidToken

----------------------------------------------------------------------------
(* Claims about deletion, lookups, initialization and settings *)

\* C15: delete_credentials(u, s) returns normally; with no row for (u, s)
\* it leaves every table as it was; with a row it removes that row and no
\* other, and get_credentials(u, s) on any store then finds nothing; a
\* second delete_credentials(u, s) right after would remove nothing.
C15_DeleteExactlyOneRow ==
    [][ \A u \in UserIds, s \in Services :
          ( /\ last'.op = "delete_credentials"
            /\ last'.user_id = u
            /\ last'.service_name = s ) =>
              /\ last'.result = None
              /\ CredRows(u, s) = {} => credentials' = credentials
              /\ \A r \in credentials :
                    r \in credentials' <=>
                       ~(r.user_id = u /\ r.service_name = s)
              /\ credentials' \subseteq credentials
              /\ UNCHANGED <<users, users_seq, settings, schema, key_file>>
              /\ \A i \in StoreIds :
                    Built(i) => get_credentials(i, u, s)'.outcome = "None"
              /\ (credentials \ CredRows(u, s))' = credentials' ]_vars

C15_Witness ==
    /\ last.op = "delete_credentials"
    /\ CredRows(last.user_id, last.service_name) = {}
    /\ credentials # {}
    /\ settings # {}

\* What a caller may pass as user_id to a lookup: the ids the users table can
\* hand out, and 0, which is the id of no row.
LookupIds == UserIds \cup {0}

\* Lookups where no row matches: get_credentials and get_setting return
\* None, verify_user returns None, get_all_credentials and get_all_settings
\* return an empty mapping; none of them raises.
RowlessIsAbsent ==
    /\ \A i \in StoreIds, u \in LookupIds, s \in Services :
          (Built(i) /\ CredRows(u, s) = {}) =>
             get_credentials(i, u, s).outcome = "None"
    /\ \A u \in LookupIds, k \in AllSettingKeys :
          SettingRows(u, k) = {} => get_setting(u, k) = None
    /\ \A n \in Usernames, p \in Passwords :
          UserRows(n) = {} => verify_user(n, p) = NoneId
    /\ \A i \in StoreIds, u \in LookupIds :
          (Built(i) /\ \A r \in credentials : r.user_id # u) =>
             /\ get_all_credentials(i, u).outcome = "dict"
             /\ DOMAIN get_all_credentials(i, u).value = {}
    /\ \A u \in LookupIds :
          (\A r \in settings : r.user_id # u) =>
             DOMAIN get_all_settings(u) = {}

\* C16: a lookup of missing data returns an absent or empty result and does
\* not raise: so it is where no row matches, and get_all_credentials and
\* get_all_settings of a user id that is the id of no users row return an
\* empty mapping.
C16_MissingIsAbsent ==
    /\ RowlessIsAbsent
    /\ \A i \in StoreIds, u \in LookupIds :
          (Built(i) /\ \A r \in users : r.id # u) =>
             /\ get_all_credentials(i, u).outcome = "dict"
             /\ DOMAIN get_all_credentials(i, u).value = {}
             /\ DOMAIN get_all_settings(u) = {}

\* C17: store initialization is idempotent: a step that builds a store
\* leaves the database with the three tables, leaves the tables that
\* existed before as they were, and leaves every users, credentials and
\* settings row unchanged.
C17_InitIdempotent ==
    [][ stores' # stores =>
          /\ schema' = TableNames
          /\ schema # {} => schema' = schema
          /\ users' = users
          /\ users_seq' = users_seq
          /\ credentials' = credentials
          /\ settings' = settings ]_vars

\* The second store has just been built on a database that holds rows in
\* all three tables.
C17_Witness ==
    /\ last.op = "__init__"
    /\ \A i \in StoreIds : Built(i)
    /\ schema = TableNames
    /\ users # {}
    /\ credentials # {}
    /\ settings # {}

\* The keys saved so far for user u.
KeysSaved(u) == {k \in AllSettingKeys : setting_saved[<<u, k>>] # None}

\* C18: after any sequence of save_setting calls the settings table holds
\* at most one row per (user_id, setting_key), get_setting(u, k) returns the
\* value of the most recent save_setting(u, k, .), and get_all_settings(u)
\* maps exactly the keys ever saved for u, each to its most recent value.
C18_SettingsLatestValue ==
    \A u \in UserIds :
       /\ \A k \in AllSettingKeys :
             /\ Cardinality(SettingRows(u, k)) <= 1
             /\ get_setting(u, k) = setting_saved[<<u, k>>]
       /\ get_all_settings(u) = [k \in KeysSaved(u) |-> setting_saved[<<u, k>>]]

\* Both keys of user 1 are saved, with different values, llm_provider most
\* recently; user 2 has saved one key.
C18_Witness ==
    /\ last.op = "save_setting"
    /\ last.user_id = 1
    /\ last.setting_key = "llm_provider"
    /\ get_setting(1, "llm_provider") = "openai"
    /\ get_setting(1, "llm_model") = "openrouter"
    /\ KeysSaved(2) = {"llm_model"}

----------------------------------------------------------------------------
(* Claims about the foreign keys *)

\* C19: in every reachable state the user_id of every credentials row and
\* of every settings row is the id of a users row (so save_credentials and
\* save_setting with a user_id of no user create no row).
C19_ReferentialIntegrity ==
    /\ \A r \in credentials : \E x \in users : x.id = r.user_id
    /\ \A r \in settings : \E x \in users : x.id = r.user_id

\* C20: a step that deletes a users row removes, in the same step, every
\* credentials row and every settings row with that user_id.
C20_CascadeDelete ==
    [][ \A u \in UserIds :
          ( /\ \E x \in users : x.id = u
            /\ \A x \in users' : x.id # u ) =>
              /\ \A r \in credentials' : r.user_id # u
              /\ \A r \in settings' : r.user_id # u ]_vars

----------------------------------------------------------------------------
(* Claims about upsert, signup policy and frame effects of the store *)

\* C21: save_credentials on an existing (user, service) row replaces both
\* encrypted fields with the new call's values and merges nothing: a field
\* that is None in the new call is NULL afterwards whatever the row held,
\* and get_credentials on a store with the saving key then returns exactly
\* the url and api_key of the new call.
C21_UpsertReplacesBothFields ==
    [][ \A j \in StoreIds, u \in UserIds, s \in Services :
          ( /\ last'.op = "save_credentials"
            /\ last'.user_id = u /\ last'.service_name = s
            /\ CredRows(u, s) # {}
            /\ Built(j) /\ stores[j] = last'.key ) =>
              /\ \A r \in CredRows(u, s)' :
                    /\ last'.url = None => r.encrypted_url = NULL
                    /\ last'.api_key = None => r.encrypted_api_key = NULL
              /\ get_credentials(j, u, s)'.outcome = "dict"
              /\ get_credentials(j, u, s)'.url = last'.url
              /\ get_credentials(j, u, s)'.api_key = last'.api_key ]_vars

\* C22: has_any_users() is True exactly when some create_user call has
\* returned True; create_user with a username no row holds returns True
\* whether or not other users exist; and once has_any_users() is True it
\* stays True.
C22_HasAnyUsers ==
    [][ /\ has_any_users' <=> \E n \in Usernames : pw_set'[n] # None
        /\ \A n \in Usernames :
              ( /\ last'.op = "create_user"
                /\ last'.username = n
                /\ ~user_exists(n) ) => last'.result = TRUE
        /\ has_any_users => has_any_users' ]_vars

\* A second user has just signed up while another user existed.
C22_Witness ==
    /\ last.op = "create_user"
    /\ last.result = TRUE
    /\ Cardinality(users) = 2
    /\ has_any_users

\* C30: save_credentials(u, s, ...) and delete_credentials(u, s) leave every
\* credentials row of another (user, service) pair, every users row and
\* every settings row unchanged; change_password changes nothing but the
\* password_hash of the user it verified, whose id, credentials and
\* settings read as before.
C30_FrameEffects ==
    [][ /\ \A u \in UserIds, s \in Services :
              ( /\ last'.op \in {"save_credentials", "delete_credentials"}
                /\ last'.user_id = u
                /\ last'.service_name = s ) =>
                  /\ credentials' \ CredRows(u, s)'
                        = credentials \ CredRows(u, s)
                  /\ UNCHANGED <<users, users_seq, settings>>
        /\ \A n \in Usernames, old \in Passwords :
              ( /\ last'.op = "change_password"
                /\ last'.username = n
                /\ last'.old_password = old ) =>
                  /\ UNCHANGED <<credentials, settings, users_seq>>
                  /\ {[id |-> r.id, username |-> r.username] : r \in users'}
                        = {[id |-> r.id, username |-> r.username] : r \in users}
                  /\ Cardinality(users') = Cardinality(users)
                  /\ \A r \in users :
                        r \notin users' =>
                           /\ last'.result = TRUE
                           /\ r.id = verify_user(n, old)
                  /\ \A key \in KeysInUse, u \in UserIds :
                        /\ ReadAllCredentials(key, u)'
                              = ReadAllCredentials(key, u)
                        /\ get_all_settings(u)' = get_all_settings(u) ]_vars

\* alice has just changed her password while bob exists and both have
\* credentials; user 1 has a setting.
C30_Witness ==
    /\ last.op = "change_password"
    /\ last.result = TRUE
    /\ last.old_password # last.new_password
    /\ Cardinality(users) = 2
    /\ \A u \in UserIds : \E r \in credentials : r.user_id = u
    /\ settings # {}

----------------------------------------------------------------------------
(* Claims about media_tools and MediaAgent *)

\* C25: constructing a MediaAgent with neither Radarr nor Sonarr given both
\* a URL and an API key raises ValueError and yields no agent, and a
\* service given only one of the two is not configured: its tools are as
\* they were.
C25_NoServiceNoAgent ==
    [][last'.op = "MediaAgent" =>
          LET has_r == last'.radarr_url # None /\ last'.radarr_api_key # None
              has_s == last'.sonarr_url # None /\ last'.sonarr_api_key # None
          IN /\ (~has_r /\ ~has_s) =>
                    /\ last'.result = "ValueError"
                    /\ last'.agent = NoAgent
             /\ ~has_r => tools'.radarr = tools.radarr
             /\ ~has_s => tools'.sonarr = tools.sonarr
      ]_vars

\* A construction that gave Radarr a URL but no API key, and an LLM key,
\* has raised ValueError.
C25_Witness ==
    /\ last.op = "MediaAgent"
    /\ last.radarr_url = "http://a" /\ last.radarr_api_key = None
    /\ last.sonarr_url = None /\ last.api_key = "sk-1"
    /\ last.result = "ValueError"
    /\ last.agent = NoAgent

\* C26: configure_radarr(url, api_key) completes from any prior
\* configuration state, and afterwards the Radarr tools have a url_template
\* based on url and the X-Api-Key header api_key, the Sonarr tools being
\* unchanged; symmetrically for configure_sonarr.
C26_ConfigureUpdatesTools ==
    [][/\ \A url \in ServiceUrls, api_key \in ServiceKeys :
             configure_radarr(url, api_key) =>
                /\ last'.result = None
                /\ tools'.radarr.url_base = url
                /\ tools'.radarr.header = api_key
                /\ tools'.sonarr = tools.sonarr
       /\ \A url \in ServiceUrls, api_key \in ServiceKeys :
             configure_sonarr(url, api_key) =>
                /\ last'.result = None
                /\ tools'.sonarr.url_base = url
                /\ tools'.sonarr.header = api_key
                /\ tools'.radarr = tools.radarr
      ]_vars

\* The part of C26 that holds: a configure call leaves the tools of the
\* other service alone, and a call that completes sets the header.
ConfigureFrame ==
    [][/\ \A url \in ServiceUrls, api_key \in ServiceKeys :
             configure_radarr(url, api_key) =>
                /\ tools'.sonarr = tools.sonarr
                /\ last'.result = None => tools'.radarr.header = api_key
       /\ \A url \in ServiceUrls, api_key \in ServiceKeys :
             configure_sonarr(url, api_key) =>
                /\ tools'.radarr = tools.radarr
                /\ last'.result = None => tools'.sonarr.header = api_key
      ]_vars

\* No call ever changes the url_template of a tool.
UrlTemplateNeverChanges ==
    \A svc \in MediaServices : tools[svc].url_base = TextOfNone

----------------------------------------------------------------------------
(* Claims about the UI session *)

\* The keys of st.session_state other than db.
SessionKeys ==
    {"user_id", "username", "agent", "messages", "configured_services",
     "page", "auto_init_attempted"}

\* C23: immediately after Logout, whatever the session was before, user_id
\* and username are None, agent is None, messages and configured_services
\* are empty, page is 'chat' and auto_init_attempted is False, as in the
\* logged-out initial state; users, credentials and settings are unchanged.
C23_LogoutResetsSession ==
    [][\A s \in Sessions :
          ui_logout(s) =>
             /\ \A k \in SessionKeys : session'[s][k] = LoggedOut[k]
             /\ users' = users
             /\ credentials' = credentials
             /\ settings' = settings
      ]_vars

\* A Logout has just acted on a session that had an agent, a chat history
\* and the settings page open, with credentials in the store.
C23_Witness ==
    /\ last.op = "ui_logout"
    /\ last.before.agent # NoAgent
    /\ last.before.messages # <<>>
    /\ last.before.page = "settings"
    /\ credentials # {}
    /\ session[last.session].user_id = NoneId

\* C24: between a login and the next logout auto_initialize_agent attempts
\* at most once however many runs occur; it never attempts while no user
\* is logged in, never replaces an agent that exists, and the login after
\* a logout makes one new attempt.
C24_AutoInitOncePerLogin ==
    [][\A s \in Sessions :
          LET entered == /\ session[s].user_id = NoneId
                         /\ session'[s].user_id # NoneId
          IN /\ session'[s].attempts <= 1
             /\ entered => session'[s].attempts = 1
             /\ (~entered /\ session'[s].attempts # session[s].attempts) =>
                    /\ session[s].user_id # NoneId
                    /\ session[s].agent = NoAgent
             /\ (/\ session[s].agent # NoAgent
                 /\ last'.op \notin {"ui_initialize_agent", "ui_logout"}) =>
                    session'[s].agent = session[s].agent
      ]_vars

\* A login has just found the user's saved credentials and its one attempt
\* has built the agent: the credentials were saved under an earlier login,
\* which a logout ended.
C24_Witness ==
    /\ last.op = "ui_login"
    /\ last.result = "welcome"
    /\ session[last.session].attempts = 1
    /\ session[last.session].auto_init_attempted
    /\ session[last.session].agent # NoAgent

\* C28: in every state of a UI session an agent that is not None goes with
\* a logged-in user and was built from credentials read with that user's
\* id; no agent built for one user is present once another user is logged
\* in to the session.
C28_AgentBelongsToUser ==
    \A s \in Sessions :
        session[s].agent # NoAgent =>
            /\ session[s].user_id # NoneId
            /\ session[s].agent_user = session[s].user_id

\* bob is logged in with an agent of his own, in a session whose store
\* also holds Radarr credentials of alice.
C28_Witness ==
    /\ session[1].agent # NoAgent
    /\ session[1].username = "bob"
    /\ session[1].agent_user = IdOf("bob")
    /\ CredRows(IdOf("alice"), "radarr") # {}
    /\ IdOf("alice") # NoneId

\* C29: the UI offers account creation only while no user exists, so
\* whatever the interleaving of the UI sessions sharing a data directory,
\* the users table never holds more than one account created through the
\* UI.
C29_SingleUiAccount == Cardinality(users) <= 1

\* The part of C29 that holds: a signup form is only rendered by a run
\* that found the users table empty, and a run that starts once a user
\* exists renders the login form.
SignupOfferedOnlyWhenEmpty ==
    [][\A s \in Sessions :
          (session[s].rendered = "none" /\ session'[s].rendered = "signup")
              => users = {}
      ]_vars

\* The API key an agent was constructed with for a service.
KeyOf(agent, service) ==
    IF service = "radarr" THEN agent.radarr_api_key ELSE agent.sonarr_api_key

\* The URL an agent was constructed with for a service.
UrlOf(agent, service) ==
    IF service = "radarr" THEN agent.radarr_url ELSE agent.sonarr_url

\* C27: an agent created for one user's session keeps using that user's
\* URL and API key for its tool calls whatever agents other sessions of the
\* process initialize afterwards: a request of a tool of a service the
\* agent was configured with goes to the URL and carries the API key the
\* agent was constructed with, never another user's.
C27_AgentKeepsOwnCredentials ==
    (last.op = "ui_chat" /\ KeyOf(last.agent, last.service) # None) =>
        /\ last.request.url = UrlOf(last.agent, last.service)
        /\ last.request.api_key = KeyOf(last.agent, last.service)

\* The API key alone.  Violated under SpecAgents, where a second session
\* initializes an agent; holds while one session uses the process.
AgentKeepsOwnKey ==
    (last.op = "ui_chat" /\ KeyOf(last.agent, last.service) # None) =>
        last.request.api_key = KeyOf(last.agent, last.service)

\* What holds: when a construction succeeds, the tools of each service it
\* configured carry the new agent's API key at that moment.
FreshAgentUsesOwnKey ==
    [][\A s \in Sessions :
          (/\ last'.op = "ui_initialize_agent"
           /\ last'.session = s
           /\ last'.result = "MediaAgent") =>
              \A service \in MediaServices :
                  KeyOf(session'[s].agent, service) # None =>
                      tools'[service].header =
                          KeyOf(session'[s].agent, service)
      ]_vars

====
